---- MODULE Spec2Model ----
(***************************************************************************)
(* A model of download_landsat_tool (src/src/landsat_m2m_api.py): one call *)
(* of the entry point against the USGS M2M service.  Each remote call of   *)
(* the pipeline is one step; the answer of the service is chosen           *)
(* nondeterministically at that step.  The retrieval fan-out               *)
(* (_download_and_process) is modelled task by task.                       *)
(***************************************************************************)
EXTENDS Integers, Sequences, FiniteSets, TLC

VARIABLES
    args,                 \* the arguments of the call (never change)
    pc,                   \* position of the synchronous control path
    apiKey,               \* session token returned by login-token
    landsat_sensors,      \* the sensor list after defaulting (line 110)
    sensor_i,             \* index of the next sensor of the search loop
    scene_list,           \* (entityId, dataset, displayId) triples
    group_i,              \* index of the next dataset group (download-options)
    downloads,            \* the download request items
    available_downloads,  \* items with URLs
    preparing_downloads,  \* items the service still stages
    attempt,              \* loop variable of the polling loop
    tasks,                \* one record per _download_single_file coroutine
    semaphore,            \* value of the asyncio.Semaphore
    downloaded_files,     \* gather's results with the None entries removed
    extracted,            \* entityId -> number of tar extractions attempted
    removed,              \* entityId -> number of os.remove calls attempted
    logout_site,          \* source line of the logout call reached (0: none)
    pending_return,       \* what the path returns after its logout
    service,              \* the service's staging of the labelled request
    calls,                \* endpoint -> number of requests sent
    search_errors,        \* number of scene-search requests that failed
    dload_data,           \* the options of the last download-options response
    slept,                \* time.sleep followed the last polling attempt
    poll_exit,            \* how the polling loop was left: break or exhausted
    result                \* what the call gave its caller

vars == <<args, pc, apiKey, landsat_sensors, sensor_i, scene_list, group_i,
          downloads, available_downloads, preparing_downloads, attempt, tasks,
          semaphore, downloaded_files, extracted, removed, logout_site,
          pending_return, service, calls, search_errors, dload_data, slept,
          poll_exit, result>>

-----------------------------------------------------------------------------
(* Bounds of the model.                                                     *)

\* most scenes one scene-search response lists
MaxScenes == 2
\* largest max_concurrent_downloads passed by a caller
MaxConcurrency == 2
\* most items the service's answers may bring available_downloads to
MaxAvailable == 4

\* the polling budget
max_attempts == 10

-----------------------------------------------------------------------------
(* Values.                                                                  *)

\* Optional arguments: None or a value.
None == [none |-> TRUE, val |-> <<>>]
Some(v) == [none |-> FALSE, val |-> v]

\* A text field of a split string: a number or something float()/int() reject.
Num(v) == [isnum |-> TRUE, val |-> v]
Junk == [isnum |-> FALSE, val |-> 0]

Endpoints == {"login-token", "scene-search", "download-options",
              "download-request", "download-retrieve", "logout"}

NoResult == [kind |-> "none", text |-> "", n |-> 0]
Returned(s) == [kind |-> "return", text |-> s, n |-> 0]
Raised(s) == [kind |-> "raise", text |-> s, n |-> 0]
Success(k) == [kind |-> "return", text |-> "Successfully downloaded", n |-> k]

ErrRequired == "Error: output_directory, start_date, end_date, and bounding_box are required."
ErrBBox == "Error: Invalid bounding_box format. Use 'min_lon,min_lat,max_lon,max_lat'."
ErrDate == "Error: Invalid date format. Use 'YYYY-MM-DD'."
ErrLogin == "Login failed"
ErrSensor == "Error: Invalid sensor"
ErrSearch == "Search failed for sensor"
NoScenes == "No scenes found."
NoDownloads == "No available downloads found."
ErrRequest == "Download request failed"

-----------------------------------------------------------------------------
(* Input validation (lines 92-111).  A string argument that the code splits *)
(* is kept as the sequence of its fields: bounding_box as the fields        *)
(* between commas, a date as the fields between hyphens.  The empty         *)
(* sequence stands for None and for the empty string, which `not all(...)`  *)
(* treats alike.                                                            *)

RequiredPresent(a) ==
    /\ a.output_directory # ""
    /\ a.start_date # <<>>
    /\ a.end_date # <<>>
    /\ a.bounding_box # <<>>

InRange(lo, x, hi) == lo <= x /\ x <= hi

\* map(float, bounding_box.split(",")) unpacked into four names, then the
\* WGS84 range test; a ValueError of either gives the same error string.
BBoxValid_NoRange(b) ==
    /\ Len(b) = 4
    /\ \A k \in 1..4 : b[k].isnum

BBoxValid(b) ==
    /\ Len(b) = 4
    /\ \A k \in 1..4 : b[k].isnum
    /\ InRange(-180, b[1].val, 180) /\ InRange(-90, b[2].val, 90)
    /\ InRange(-180, b[3].val, 180) /\ InRange(-90, b[4].val, 90)

IsLeap(y) == (y % 4 = 0 /\ y % 100 # 0) \/ y % 400 = 0

DaysInMonth(y, m) ==
    IF m = 2 THEN (IF IsLeap(y) THEN 29 ELSE 28)
    ELSE IF m \in {4, 6, 9, 11} THEN 30 ELSE 31

\* datetime.strptime(d, "%Y-%m-%d") succeeds
StrpTime(d) ==
    /\ Len(d) = 3
    /\ \A k \in 1..3 : d[k].isnum
    /\ InRange(1, d[1].val, 9999)
    /\ InRange(1, d[2].val, 12)
    /\ InRange(1, d[3].val, DaysInMonth(d[1].val, d[2].val))

DefaultSensors == <<"L8", "L9">>

-----------------------------------------------------------------------------
(* Scene search (lines 121-160).                                            *)

Upper(s) ==
    CASE s = "l8" -> "L8"
      [] s = "l9" -> "L9"
      [] s = "l7" -> "L7"
      [] s = "l5" -> "L5"
      [] s = "xx" -> "XX"
      [] s = "b2" -> "B2"
      [] s = "b3" -> "B3"
      [] s = "b4" -> "B4"
      [] s = "b5" -> "B5"
      [] OTHER -> s

datasets_map ==
    [k \in {"L8", "L9", "L7", "L5"} |->
        CASE k = "L8" -> "landsat_ot_c2_l2"
          [] k = "L9" -> "landsat_ot_c2_l2"
          [] k = "L7" -> "landsat_etm_c2_l2"
          [] k = "L5" -> "landsat_tm_c2_l2"]

Datasets == {datasets_map[k] : k \in DOMAIN datasets_map}

\* The service's catalog: entity ids of a dataset are 1..MaxScenes above the
\* dataset's base; 0 stands for an absent entityId or displayId.
DsBase(ds) ==
    CASE ds = "landsat_ot_c2_l2" -> 0
      [] ds = "landsat_etm_c2_l2" -> 10
      [] ds = "landsat_tm_c2_l2" -> 20

SceneEntities == {DsBase(ds) + k : ds \in Datasets, k \in 1..MaxScenes}

CatalogScene(ds, k) == [entityId |-> DsBase(ds) + k, displayId |-> DsBase(ds) + k]

\* What a scene-search of dataset ds may list: no scene, the first scene of
\* the catalog, all its scenes, or one scene that lacks its displayId.
SearchResults(ds) ==
    {[j \in 1..k |-> CatalogScene(ds, j)] : k \in {0, 1, MaxScenes}}
    \cup {<<[entityId |-> DsBase(ds) + 1, displayId |-> 0]>>}

\* lines 152-153: the triples of the results that have both ids
RECURSIVE SceneTriples(_, _)
SceneTriples(results, ds) ==
    IF results = <<>> THEN <<>>
    ELSE LET s == Head(results)
             rest == SceneTriples(Tail(results), ds)
         IN IF s.entityId # 0 /\ s.displayId # 0
            THEN <<[entityId |-> s.entityId, dataset |-> ds,
                    displayId |-> s.displayId]>> \o rest
            ELSE rest

\* line 162: a dict comprehension, the last triple of an entity wins
EntityToDisplay(sl) ==
    [e \in {sl[k].entityId : k \in 1..Len(sl)} |->
        LET last == CHOOSE k \in 1..Len(sl) :
                        /\ sl[k].entityId = e
                        /\ \A j \in (k+1)..Len(sl) : sl[j].entityId # e
        IN sl[last].displayId]

\* lines 166-168: dict.setdefault keeps the datasets in first-seen order
RECURSIVE DatasetOrder(_)
DatasetOrder(sl) ==
    IF sl = <<>> THEN <<>>
    ELSE LET init == DatasetOrder(SubSeq(sl, 1, Len(sl) - 1))
             ds == sl[Len(sl)].dataset
         IN IF \E k \in 1..Len(init) : init[k] = ds THEN init
            ELSE Append(init, ds)

RECURSIVE GroupEntities(_, _)
GroupEntities(sl, ds) ==
    IF sl = <<>> THEN <<>>
    ELSE IF Head(sl).dataset = ds
         THEN <<Head(sl).entityId>> \o GroupEntities(Tail(sl), ds)
         ELSE GroupEntities(Tail(sl), ds)

-----------------------------------------------------------------------------
(* Download options (lines 164-215).                                        *)

RECURSIVE DistinctInOrder(_)
DistinctInOrder(q) ==
    IF q = <<>> THEN <<>>
    ELSE LET init == DistinctInOrder(SubSeq(q, 1, Len(q) - 1))
             x == q[Len(q)]
         IN IF \E k \in 1..Len(init) : init[k] = x THEN init ELSE Append(init, x)

\* A per-band file of a scene's option.  Its displayId is kept as the scene,
\* the band suffix between the last "_" and the extension, and the extension.
Secondary(e, band, num, avail) ==
    [entityId |-> 100 * e + num, id |-> 1000 * e + num, available |-> avail,
     displayId |-> [scene |-> e, suffix |-> band, ext |-> ".TIF"]]

SecondaryDownloads(e) ==
    <<Secondary(e, "B2", 2, TRUE), Secondary(e, "B3", 3, TRUE),
      Secondary(e, "B5", 5, TRUE), Secondary(e, "B4", 4, FALSE),
      Secondary(e, "b4", 6, TRUE)>>

Option(e, product, avail) ==
    [entityId |-> e, id |-> 2 * e + product, available |-> avail,
     secondaryDownloads |-> SecondaryDownloads(e)]

\* The service offers two products per entity; a pattern says which of them
\* are available: both, only the second, none, or both for every entity but
\* the first one listed ("rest").
Patterns == {"both", "second", "none", "rest"}

RECURSIVE OptionsOf(_, _, _)
OptionsOf(ents, pat, first) ==
    IF ents = <<>> THEN <<>>
    ELSE LET e == Head(ents)
             a0 == pat = "both" \/ (pat = "rest" /\ ~first)
             a1 == pat \in {"both", "second"} \/ (pat = "rest" /\ ~first)
         IN <<Option(e, 0, a0), Option(e, 1, a1)>>
            \o OptionsOf(Tail(ents), pat, FALSE)

\* The lists a download-options response may hold for this request.
OptionResponses(entityIds) ==
    {OptionsOf(DistinctInOrder(entityIds), pat, TRUE) : pat \in Patterns}

\* lines 183-188: the first available option of an entity is kept
HasOption(options, e) ==
    \E k \in 1..Len(options) : options[k].available /\ options[k].entityId = e

FirstOption(options, e) ==
    options[CHOOSE k \in 1..Len(options) :
                /\ options[k].available /\ options[k].entityId = e
                /\ \A j \in 1..(k-1) :
                       ~(options[j].available /\ options[j].entityId = e)]

\* line 204: a dict comprehension, the last available option of an entity wins
LastOption(options, e) ==
    options[CHOOSE k \in 1..Len(options) :
                /\ options[k].available /\ options[k].entityId = e
                /\ \A j \in (k+1)..Len(options) :
                       ~(options[j].available /\ options[j].entityId = e)]

\* lines 189-192
RECURSIVE BundleItems(_, _)
BundleItems(options, entityIds) ==
    IF entityIds = <<>> THEN <<>>
    ELSE LET ent == Head(entityIds)
             rest == BundleItems(options, Tail(entityIds))
         IN IF HasOption(options, ent)
            THEN <<[entityId |-> ent, productId |-> FirstOption(options, ent).id]>>
                 \o rest
            ELSE rest

\* line 212: file_id.endswith("_" + band_code.upper() + ".TIF") for some band
BandMatch_AnyBand(file_id, bandlist) == file_id.ext = ".TIF"

BandMatch(file_id, bandlist) ==
    \E k \in 1..Len(bandlist) :
        file_id.suffix = Upper(bandlist[k]) /\ file_id.ext = ".TIF"

\* lines 209-213
RECURSIVE SecondaryItems(_, _)
SecondaryItems(secs, bandlist) ==
    IF secs = <<>> THEN <<>>
    ELSE LET so == Head(secs)
             rest == SecondaryItems(Tail(secs), bandlist)
         IN IF so.available /\ BandMatch(so.displayId, bandlist)
            THEN <<[entityId |-> so.entityId, productId |-> so.id]>> \o rest
            ELSE rest

\* lines 206-213
RECURSIVE BandItems(_, _, _)
BandItems(options, entity_ids, bandlist) ==
    IF entity_ids = <<>> THEN <<>>
    ELSE LET ent == Head(entity_ids)
             rest == BandItems(options, Tail(entity_ids), bandlist)
         IN IF HasOption(options, ent)
            THEN SecondaryItems(LastOption(options, ent).secondaryDownloads, bandlist)
                 \o rest
            ELSE rest

\* what one download-options response adds to downloads
NewDownloads(options, entityIds, bandarg) ==
    IF bandarg.none THEN BundleItems(options, entityIds)
    ELSE BandItems(options, entityIds, bandarg.val)

-----------------------------------------------------------------------------
(* Download request and polling (lines 221-251): the service's side.        *)

\* the service stages nothing for the label
NoStaging == [pending |-> <<>>, staged |-> <<>>, relist |-> FALSE]

NoUrl == [present |-> FALSE, base |-> 0, ext |-> ""]
Url(k) == [present |-> TRUE, base |-> k, ext |-> ".tar.gz"]

\* The download item the service makes of request item k.
Item(reqs, k, url) == [entityId |-> reqs[k].entityId, url |-> url, fileName |-> ""]

ItemsOf(reqs, from, to) == [j \in 1..(to - from + 1) |-> Item(reqs, from + j - 1, Url(from + j - 1))]

-----------------------------------------------------------------------------
(* Filename derivation (lines 266-280).                                     *)

NoName == [ok |-> FALSE, stem |-> <<"", 0>>, ext |-> ""]
Name(kind, id, ext) == [ok |-> TRUE, stem |-> <<kind, id>>, ext |-> ext]

new_fname(item, bandarg, e2d) ==
    IF ~bandarg.none
    THEN IF item.fileName # "" THEN Name("server", item.entityId, item.fileName)
         ELSE IF item.entityId # 0 THEN Name("entity", item.entityId, ".TIF")
         ELSE NoName
    ELSE IF item.entityId \in DOMAIN e2d /\ e2d[item.entityId] # 0
         THEN Name("display", e2d[item.entityId], ".tar.gz")
         ELSE Name("url", item.url.base, item.url.ext)

-----------------------------------------------------------------------------
(* The calls of the entry point that are tried: every combination of the    *)
(* validated arguments that fails validation, with the other arguments at   *)
(* their defaults; and, with valid arguments, every sensor list with every  *)
(* band list, and every delete_archive with every max_concurrent_downloads. *)

ValidDate == <<Num(2022), Num(1), Num(1)>>
ValidBBox == <<Num(-120), Num(35), Num(-119), Num(36)>>

OutputDirs == {"", "test_output"}
StartDates == {<<>>, ValidDate, <<Num(2022), Num(2), Num(30)>>, <<Junk>>}
EndDates == {<<>>, <<Num(2022), Num(1), Num(31)>>, <<Num(2022), Num(13), Num(1)>>,
             <<Num(2022), Num(1)>>}
BBoxes == {<<>>, ValidBBox, <<Junk>>, <<Num(-120), Num(35), Num(-119)>>,
           <<Num(-181), Num(35), Num(-119), Num(36)>>,
           <<Num(-120), Num(35), Num(-119), Num(91)>>,
           <<Num(-120), Junk, Num(-119), Num(36)>>}
SensorLists == {None, Some(<<>>), Some(<<"L8">>), Some(<<"l7">>), Some(<<"XX">>),
                Some(<<"L8", "XX">>), Some(<<"XX", "L8">>), Some(<<"L8", "L7">>)}
BandLists == {None, Some(<<"B2", "b3", "B4">>)}
Concurrencies == (-1)..MaxConcurrency

Call(od, sd, ed, bb, ls, bs, da, mc) ==
    [output_directory |-> od, start_date |-> sd, end_date |-> ed,
     bounding_box |-> bb, landsat_sensors |-> ls, bands |-> bs,
     delete_archive |-> da, max_concurrent_downloads |-> mc]

ValidationError(a) ==
    IF ~RequiredPresent(a) THEN ErrRequired
    ELSE IF ~BBoxValid(a.bounding_box) THEN ErrBBox
    ELSE IF ~(StrpTime(a.start_date) /\ StrpTime(a.end_date)) THEN ErrDate
    ELSE ""

\* line 304 creates the semaphore with the caller's value: 5 by default
DefaultConcurrency == 5

Calls ==
    {c \in {Call(od, sd, ed, bb, None, None, TRUE, DefaultConcurrency) :
               od \in OutputDirs, sd \in StartDates, ed \in EndDates,
               bb \in BBoxes} : ValidationError(c) # ""}
    \cup
    {Call("test_output", ValidDate, ValidDate, ValidBBox, ls, bs, TRUE, 1) :
        ls \in SensorLists, bs \in BandLists}
    \cup
    {Call("test_output", ValidDate, ValidDate, ValidBBox, None, None, da, mc) :
        da \in BOOLEAN, mc \in Concurrencies}

-----------------------------------------------------------------------------
(* The pipeline.                                                            *)

\* The requests sent are counted per endpoint; those of the polling loop are
\* counted by attempt, and calls only records that one was sent.
Count(ep) ==
    calls' = [calls EXCEPT ![ep] = IF ep = "download-retrieve" THEN 1 ELSE @ + 1]

\* m2m_request("logout", {}, apiKey) comes next; ret is what the path returns
GoLogout(site, ret) ==
    /\ pc' = "logout"
    /\ logout_site' = site
    /\ pending_return' = ret

\* lines 318-323: only the last logout is inside a try
LogoutGuarded(site) == site = 320

Init ==
    /\ args \in Calls
    /\ pc = "start"
    /\ apiKey = "unset"
    /\ landsat_sensors = <<>>
    /\ sensor_i = 0
    /\ scene_list = <<>>
    /\ group_i = 0
    /\ downloads = <<>>
    /\ available_downloads = <<>>
    /\ preparing_downloads = <<>>
    /\ attempt = 0
    /\ tasks = <<>>
    /\ semaphore = 0
    /\ downloaded_files = <<>>
    /\ extracted = [e \in SceneEntities \cup {0} |-> 0]
    /\ removed = [e \in SceneEntities \cup {0} |-> 0]
    /\ logout_site = 0
    /\ pending_return = NoResult
    /\ service = NoStaging
    /\ calls = [ep \in Endpoints |-> 0]
    /\ search_errors = 0
    /\ dload_data = <<>>
    /\ slept = FALSE
    /\ poll_exit = "none"
    /\ result = NoResult

\* lines 92-111
Validate ==
    /\ pc = "start"
    /\ IF ValidationError(args) # ""
       THEN /\ result' = Returned(ValidationError(args))
            /\ pc' = "done"
            /\ UNCHANGED landsat_sensors
       ELSE /\ landsat_sensors' = IF args.landsat_sensors.none THEN DefaultSensors
                                  ELSE args.landsat_sensors.val
            /\ pc' = "login"
            /\ UNCHANGED result
    /\ UNCHANGED <<dload_data, slept, poll_exit, 
                   args, apiKey, sensor_i, scene_list, group_i, downloads,
                   available_downloads, preparing_downloads, attempt, tasks,
                   semaphore, downloaded_files, extracted, removed, logout_site,
                   pending_return, service, calls,
                   search_errors>>

\* lines 138-143: the ring of the spatial filter, from the four floats of
\* line 98
search_polygon(min_lon, min_lat, max_lon, max_lat) ==
    <<<<min_lon, min_lat>>, <<max_lon, min_lat>>, <<max_lon, max_lat>>,
      <<min_lon, min_lat>>, <<min_lon, min_lat>>>>

\* Where the search loop goes once sensor i-1 is done with scene list sl
\* (lines 129, 158-160).
AfterSensor(i, sl) ==
    IF i <= Len(landsat_sensors)
    THEN /\ pc' = "search"
         /\ UNCHANGED <<logout_site, pending_return>>
    ELSE IF sl = <<>>
         THEN GoLogout(159, Returned(NoScenes))
         ELSE /\ pc' = "options"
              /\ UNCHANGED <<logout_site, pending_return>>

\* A response of the service: the HTTP status and the envelope's fields.
Response(status, errorCode, data) ==
    [status |-> status, errorCode |-> errorCode, data |-> data]

\* lines 80-90: raise_for_status, then the errorCode test, then .get("data")
m2m_request(resp) ==
    IF resp.status >= 400 THEN [raised |-> TRUE, data |-> None]
    ELSE IF resp.errorCode # "" THEN [raised |-> TRUE, data |-> None]
    ELSE [raised |-> FALSE, data |-> resp.data]

\* what the service may answer to login-token
LoginResponses ==
    {Response(500, "", None), Response(200, "AUTH_INVALID", None),
     Response(200, "", None), Response(200, "", Some("token"))}

\* lines 114-119
Login ==
    /\ pc = "login"
    /\ Count("login-token")
    /\ \E resp \in LoginResponses :
        IF m2m_request(resp).raised
        THEN /\ result' = Returned(ErrLogin)
             /\ pc' = "done"
             /\ UNCHANGED <<apiKey, sensor_i, group_i, logout_site, pending_return>>
        ELSE /\ apiKey' = IF m2m_request(resp).data.none THEN "None"
                          ELSE m2m_request(resp).data.val
             /\ sensor_i' = 1
             /\ group_i' = 1
             /\ AfterSensor(1, <<>>)
             /\ UNCHANGED result
    /\ UNCHANGED <<dload_data, slept, poll_exit, 
                   args, landsat_sensors, scene_list, downloads,
                   available_downloads, preparing_downloads, attempt, tasks,
                   semaphore, downloaded_files, extracted, removed, service,
                   search_errors>>

\* lines 154-156: a failed scene-search logs out and returns
SearchFailed_Continue(i) ==
    /\ sensor_i' = i + 1
    /\ AfterSensor(i + 1, scene_list)

SearchFailed(i) ==
    /\ sensor_i' = i
    /\ GoLogout(155, Returned(ErrSearch))

\* lines 129-156: one pass of the loop over the sensors
Search ==
    /\ pc = "search"
    /\ LET sensor == landsat_sensors[sensor_i]
           sensor_key == Upper(sensor)
       IN IF sensor_key \notin DOMAIN datasets_map
          THEN /\ GoLogout(132, Returned(ErrSensor))
               /\ UNCHANGED <<sensor_i, scene_list, calls, search_errors>>
          ELSE LET dataset == datasets_map[sensor_key]
               IN /\ Count("scene-search")
                  /\ \/ /\ SearchFailed(sensor_i)      \* the request raises
                        /\ search_errors' = search_errors + 1
                        /\ UNCHANGED scene_list
                     \/ /\ SearchFailed(sensor_i)      \* data is None: .get raises
                        /\ search_errors' = search_errors + 1
                        /\ UNCHANGED scene_list
                     \/ \E results \in SearchResults(dataset) :
                          /\ UNCHANGED search_errors
                          /\ scene_list' = scene_list \o SceneTriples(results, dataset)
                          /\ sensor_i' = sensor_i + 1
                          /\ AfterSensor(sensor_i + 1, scene_list')
    /\ UNCHANGED <<dload_data, slept, poll_exit, 
                   args, apiKey, landsat_sensors, group_i, downloads,
                   available_downloads, preparing_downloads, attempt, tasks,
                   semaphore, downloaded_files, extracted, removed, service,
                   result>>

\* lines 171-219: the download-options request of one dataset group
Options ==
    /\ pc = "options"
    /\ LET order == DatasetOrder(scene_list)
           ds == order[group_i]
           entityIds == GroupEntities(scene_list, ds)
           next(dl, opts) ==
               /\ downloads' = dl
               /\ dload_data' = opts
               /\ IF group_i < Len(order)
                  THEN /\ group_i' = group_i + 1
                       /\ pc' = "options"
                       /\ UNCHANGED <<logout_site, pending_return>>
                  ELSE /\ UNCHANGED group_i
                       /\ IF dl = <<>>
                          THEN GoLogout(218, Returned(NoDownloads))
                          ELSE /\ pc' = "request"
                               /\ UNCHANGED <<logout_site, pending_return>>
       IN /\ Count("download-options")
          /\ \/ next(downloads, <<>>)              \* the request raises
             \/ next(downloads, <<>>)              \* data is None: no options
             \/ \E opts \in OptionResponses(entityIds) :
                  next(downloads \o NewDownloads(opts, entityIds, args.bands), opts)
    /\ UNCHANGED <<slept, poll_exit, 
                   args, apiKey, landsat_sensors, sensor_i, scene_list,
                   available_downloads, preparing_downloads, attempt, tasks,
                   semaphore, downloaded_files, extracted, removed, service,
                   result,
                   search_errors>>

\* lines 221-231: the service has the first a items available at once and is
\* preparing the others, or (partial) leaves the others out of its answer;
\* nourl: the last available item carries no URL; relist: download-retrieve
\* will list every staged item of the label, not only the newly staged ones
Request ==
    /\ pc = "request"
    /\ Count("download-request")
    /\ \/ /\ GoLogout(230, Returned(ErrRequest))   \* the request raises
          /\ UNCHANGED <<available_downloads, preparing_downloads, service>>
       \/ /\ GoLogout(230, Returned(ErrRequest))   \* data is None: .get raises
          /\ UNCHANGED <<available_downloads, preparing_downloads, service>>
       \/ \E a \in 0..Len(downloads), partial \in BOOLEAN, nourl \in BOOLEAN,
             relist \in BOOLEAN :
            LET p == IF partial THEN 0 ELSE Len(downloads) - a
                items == ItemsOf(downloads, 1, a)
                avail == IF nourl THEN [items EXCEPT ![a].url = NoUrl] ELSE items
            IN /\ a <= MaxAvailable
               /\ nourl => (a > 0 /\ partial)
               /\ partial => a < Len(downloads)
               /\ relist => p > 0
               /\ available_downloads' = avail
               /\ preparing_downloads' = SubSeq(downloads, a + 1, a + p)
               /\ service' = IF p > 0
                             THEN [pending |-> ItemsOf(downloads, a + 1, a + p),
                                   staged |-> avail, relist |-> relist]
                             ELSE NoStaging
               /\ pc' = IF p > 0 THEN "poll" ELSE "retrieve"
               /\ UNCHANGED <<logout_site, pending_return>>
    /\ UNCHANGED <<dload_data, slept, poll_exit, 
                   args, apiKey, landsat_sensors, sensor_i, scene_list, group_i,
                   downloads, attempt, tasks, semaphore, downloaded_files,
                   extracted, removed, result,
                   search_errors>>

\* The loop is left: its variable and the service's staging are not read
\* again, and the model forgets them.
LeavePolling ==
    /\ attempt' = 0
    /\ pc' = "retrieve"

\* lines 249-251: the sleep that follows an attempt the loop did not break at
Sleeps == attempt < max_attempts - 1

\* lines 249-251 and the loop header: the next attempt, or the end of the loop
NextAttempt_ExtraAttempt ==
    /\ slept' = Sleeps
    /\ IF attempt + 1 < max_attempts + 1
       THEN /\ attempt' = attempt + 1
            /\ pc' = "poll"
            /\ UNCHANGED poll_exit
       ELSE /\ LeavePolling
            /\ poll_exit' = "exhausted"

NextAttempt ==
    /\ slept' = Sleeps
    /\ IF attempt + 1 < max_attempts
       THEN /\ attempt' = attempt + 1
            /\ pc' = "poll"
            /\ UNCHANGED poll_exit
       ELSE /\ LeavePolling
            /\ poll_exit' = "exhausted"

\* line 244: break, which skips the sleep
Break ==
    /\ LeavePolling
    /\ slept' = FALSE
    /\ poll_exit' = "break"

\* lines 243-244
EnoughUrls(avail) == Len(avail) >= Len(downloads)

\* lines 237-251: one attempt of the polling loop.  The service stages the
\* next j pending items; its answer lists the newly staged items, or (relist)
\* every item of the label staged so far.
Poll ==
    /\ pc = "poll"
    /\ Count("download-retrieve")
    /\ \/ /\ NextAttempt                           \* the request raises
          /\ service' = IF pc' = "poll" THEN service ELSE NoStaging
          /\ UNCHANGED available_downloads
       \/ /\ NextAttempt                           \* nothing available yet
          /\ service' = IF pc' = "poll" THEN service ELSE NoStaging
          /\ UNCHANGED available_downloads
       \/ \E j \in 0..Len(service.pending) :
            LET new == SubSeq(service.pending, 1, j)
                staged == service.staged \o new
                listed == IF service.relist THEN staged ELSE new
                avail == available_downloads \o listed
            IN /\ listed # <<>>
               /\ Len(avail) <= MaxAvailable
               /\ available_downloads' = avail
               /\ IF EnoughUrls(avail) THEN Break ELSE NextAttempt
               /\ service' = IF pc' = "poll"
                             THEN [pending |-> SubSeq(service.pending, j + 1,
                                                      Len(service.pending)),
                                   staged |-> staged, relist |-> service.relist]
                             ELSE NoStaging
    /\ UNCHANGED <<dload_data, 
                   args, apiKey, landsat_sensors, sensor_i, scene_list, group_i,
                   downloads, preparing_downloads, tasks, semaphore,
                   downloaded_files, extracted, removed, logout_site,
                   pending_return, result,
                   search_errors>>

-----------------------------------------------------------------------------
(* Retrieval (lines 254-316).                                               *)

\* A task is waiting at the gate, fetching, or done; its result is a path or
\* None, and for None the model keeps the reason the code logs: the fetch
\* failed, or the item was skipped (no URL, no filename).
NewTask == [st |-> "wait", res |-> "pending"]

\* line 313: the paths that are not None
Paths(ts) == SelectSeq(ts, LAMBDA t : t.res = "path")

\* lines 304-312: asyncio.run of _download_and_process
StartRetrieval ==
    /\ pc = "retrieve"
    /\ \/ /\ GoLogout(320, Success(0))   \* RuntimeError: an event loop is running
          /\ UNCHANGED <<tasks, semaphore, result>>
       \/ /\ args.max_concurrent_downloads < 0    \* Semaphore raises ValueError
          /\ result' = Raised("ValueError")
          /\ pc' = "done"
          /\ UNCHANGED <<tasks, semaphore, logout_site, pending_return>>
       \/ /\ args.max_concurrent_downloads >= 0
          /\ semaphore' = args.max_concurrent_downloads
          /\ tasks' = [k \in 1..Len(available_downloads) |-> NewTask]
          /\ pc' = "gather"
          /\ UNCHANGED <<logout_site, pending_return, result>>
    /\ UNCHANGED <<dload_data, slept, poll_exit, 
                   args, apiKey, landsat_sensors, sensor_i, scene_list, group_i,
                   downloads, available_downloads, preparing_downloads, attempt,
                   downloaded_files, extracted, removed, service, calls,
                   search_errors>>

\* line 257: the admission gate
CanAcquire_Ungated(sem) == TRUE

CanAcquire(sem) == sem > 0

\* lines 257-260: task t passes the gate; an item without URL leaves at once
Admit(t) ==
    /\ pc = "gather"
    /\ tasks[t].st = "wait"
    /\ \A j \in 1..(t - 1) : tasks[j].st # "wait"   \* waiters wake in order
    /\ CanAcquire(semaphore)
    /\ IF available_downloads[t].url.present
       THEN /\ tasks' = [tasks EXCEPT ![t].st = "fetch"]
            /\ semaphore' = semaphore - 1
       ELSE /\ tasks' = [tasks EXCEPT ![t] = [st |-> "done", res |-> "skipped"]]
            /\ UNCHANGED semaphore
    /\ UNCHANGED <<dload_data, slept, poll_exit, 
                   args, pc, apiKey, landsat_sensors, sensor_i, scene_list,
                   group_i, downloads, available_downloads, preparing_downloads,
                   attempt, downloaded_files, extracted, removed, logout_site,
                   pending_return, service, calls, result,
                   search_errors>>

\* lines 300-302: what the failure of one fetch does to the tasks
FetchFailed_CancelSiblings(ts, t) ==
    [k \in 1..Len(ts) |->
        IF k = t THEN [st |-> "done", res |-> "failed"]
        ELSE IF ts[k].st = "wait" THEN [st |-> "done", res |-> "cancelled"]
        ELSE ts[k]]

FetchFailed(ts, t) == [ts EXCEPT ![t] = [st |-> "done", res |-> "failed"]]

\* lines 262-302: the fetch of task t ends
Finish(t) ==
    /\ pc = "gather"
    /\ tasks[t].st = "fetch"
    /\ semaphore' = semaphore + 1
    /\ LET item == available_downloads[t]
           name == new_fname(item, args.bands, EntityToDisplay(scene_list))
           e == IF item.entityId \in DOMAIN extracted THEN item.entityId ELSE 0
           bundle == args.bands.none /\ name.ext = ".tar.gz"
       IN \/ /\ tasks' = FetchFailed(tasks, t)     \* the fetch or the write raises
             /\ UNCHANGED <<extracted, removed>>
          \/ /\ ~name.ok                           \* no filename: skipped
             /\ tasks' = [tasks EXCEPT ![t] = [st |-> "done", res |-> "skipped"]]
             /\ UNCHANGED <<extracted, removed>>
          \/ /\ name.ok /\ ~bundle                 \* written
             /\ tasks' = [tasks EXCEPT ![t] = [st |-> "done", res |-> "path"]]
             /\ UNCHANGED <<extracted, removed>>
          \/ /\ name.ok /\ bundle                  \* written, extraction fails
             /\ tasks' = [tasks EXCEPT ![t] = [st |-> "done", res |-> "path"]]
             /\ extracted' = [extracted EXCEPT ![e] = @ + 1]
             /\ UNCHANGED removed
          \/ /\ name.ok /\ bundle                  \* written and extracted
             /\ tasks' = [tasks EXCEPT ![t] = [st |-> "done", res |-> "path"]]
             /\ extracted' = [extracted EXCEPT ![e] = @ + 1]
             /\ removed' = IF args.delete_archive
                           THEN [removed EXCEPT ![e] = @ + 1] ELSE removed
    /\ UNCHANGED <<dload_data, slept, poll_exit, 
                   args, pc, apiKey, landsat_sensors, sensor_i, scene_list,
                   group_i, downloads, available_downloads, preparing_downloads,
                   attempt, downloaded_files, logout_site, pending_return,
                   service, calls, result,
                   search_errors>>

\* lines 307-313: gather returns once every task has returned
Join_NoBarrier ==
    /\ pc = "gather"
    /\ downloaded_files' = Paths(tasks)
    /\ GoLogout(320, Success(Len(Paths(tasks))))
    /\ UNCHANGED <<args, apiKey, landsat_sensors, sensor_i, scene_list, group_i,
                   downloads, available_downloads, preparing_downloads, attempt,
                   tasks, semaphore, extracted, removed, service, calls, result,
                   search_errors, dload_data, slept, poll_exit>>

Join ==
    /\ pc = "gather"
    /\ \A t \in 1..Len(tasks) : tasks[t].st = "done"
    /\ downloaded_files' = Paths(tasks)
    /\ GoLogout(320, Success(Len(Paths(tasks))))
    /\ UNCHANGED <<dload_data, slept, poll_exit, 
                   args, apiKey, landsat_sensors, sensor_i, scene_list, group_i,
                   downloads, available_downloads, preparing_downloads, attempt,
                   tasks, semaphore, extracted, removed, service, calls, result,
                   search_errors>>

\* lines 132, 155, 159, 218, 230 and 318-325
Logout ==
    /\ pc = "logout"
    /\ Count("logout")
    /\ \/ result' = pending_return                 \* the request succeeds
       \/ result' = IF LogoutGuarded(logout_site)  \* the request raises
                    THEN pending_return ELSE Raised("logout")
    /\ pc' = "done"
    /\ UNCHANGED <<dload_data, slept, poll_exit, 
                   args, apiKey, landsat_sensors, sensor_i, scene_list, group_i,
                   downloads, available_downloads, preparing_downloads, attempt,
                   tasks, semaphore, downloaded_files, extracted, removed,
                   logout_site, pending_return, service,
                   search_errors>>

Next ==
    \/ Validate
    \/ Login
    \/ Search
    \/ Options
    \/ Request
    \/ Poll
    \/ StartRetrieval
    \/ \E t \in 1..Len(tasks) : Admit(t)
    \/ \E t \in 1..Len(tasks) : Finish(t)
    \/ Join
    \/ Logout

Spec == Init /\ [][Next]_vars

\* The synchronous path blocks on each request, which returns or raises
\* within its timeout; the event loop of asyncio.run runs every task that can
\* run, and each fetch ends (timeout=300).  So some step is taken whenever one
\* is possible.
FairSpec == Spec /\ WF_vars(Next)

-----------------------------------------------------------------------------
(* Properties.                                                              *)

Done == pc = "done"
LoggedIn == apiKey # "unset"
Sent(ep) == calls[ep] > 0
NoCalls == \A ep \in Endpoints : calls[ep] = 0
InFlight == Cardinality({t \in 1..Len(tasks) : tasks[t].st = "fetch"})
With(r) == Cardinality({t \in 1..Len(tasks) : tasks[t].res = r})
Recognized(sensor) == Upper(sensor) \in DOMAIN datasets_map
AllRecognized == \A k \in 1..Len(landsat_sensors) : Recognized(landsat_sensors[k])

\* C1: the call never raises to its caller: whatever the service answers,
\* what the caller gets is a returned string, never an exception.
C1_NeverRaises == result.kind # "raise"

\* C2: a call that got past login has sent exactly one logout request when it
\* ends, and a call that did not get past login has sent none.
C2_LogoutExactlyOnce ==
    Done => calls["logout"] = (IF LoggedIn THEN 1 ELSE 0)

\* C3: a failing logout request does not change the outcome: once the logout
\* request of a path is sent, the caller gets what that path returns when the
\* logout succeeds.
C3_LogoutFailureHarmless ==
    (Done /\ Sent("logout")) => result = pending_return

\* C4: validation comes before every request.  A missing required argument
\* gives the required-fields error; with all of them present, a bounding box
\* that has not four fields, has a non-numeric field or a coordinate outside
\* the WGS84 range gives the bounding-box error; with a good bounding box, a
\* date that is no calendar date of three fields gives the date-format error;
\* and in each case no request at all has been sent.
C4_Missing ==
    \/ args.output_directory = ""
    \/ args.start_date = <<>> \/ args.end_date = <<>> \/ args.bounding_box = <<>>

C4_BadBBox ==
    LET b == args.bounding_box
    IN \/ Len(b) # 4
       \/ \E k \in 1..Len(b) : ~b[k].isnum
       \/ \E k \in 1..Len(b) :
            /\ b[k].isnum
            /\ IF k % 2 = 1 THEN b[k].val < -180 \/ b[k].val > 180
               ELSE b[k].val < -90 \/ b[k].val > 90

C4_IsDate(d) ==
    /\ Len(d) = 3
    /\ \A k \in 1..3 : d[k].isnum
    /\ d[1].val \in 1..9999
    /\ d[2].val \in 1..12
    /\ d[3].val >= 1
    /\ d[3].val <= (CASE d[2].val \in {1, 3, 5, 7, 8, 10, 12} -> 31
                      [] d[2].val \in {4, 6, 9, 11} -> 30
                      [] OTHER -> IF d[1].val % 4 = 0 /\ (d[1].val % 100 # 0
                                                         \/ d[1].val % 400 = 0)
                                  THEN 29 ELSE 28)

C4_BadDate == ~C4_IsDate(args.start_date) \/ ~C4_IsDate(args.end_date)

C5_InvalidSensorAborts ==
    (Done /\ LoggedIn /\ ~AllRecognized) =>
        /\ result = Returned(ErrSensor)
        /\ ~Sent("download-options") /\ ~Sent("download-request")

\* C6 (as stated): a failed scene-search of one recognized sensor does not
\* stop the searches of the other sensors: a call that got past login with
\* recognized sensors only has searched every one of them when it ends.
C6_SearchFailureScoped ==
    (Done /\ LoggedIn /\ AllRecognized) =>
        calls["scene-search"] = Len(landsat_sensors)

\* C6 (amended): a failed scene-search ends the run.  From the failure on, no
\* later sensor is searched, no download-options, download-request or
\* download-retrieve request is sent and no download task is started, the
\* scenes found for earlier sensors being dropped; one logout is sent, and
\* the call does not end with the success summary.
C6_SearchFailureAborts ==
    search_errors > 0 =>
        /\ search_errors = 1
        /\ pc \in {"logout", "done"}
        /\ logout_site = 155
        /\ calls["scene-search"] = sensor_i
        /\ ~Sent("download-options") /\ ~Sent("download-request")
        /\ ~Sent("download-retrieve")
        /\ tasks = <<>>
        /\ Done => /\ calls["logout"] = 1
                   /\ result \in {Returned(ErrSearch), Raised("logout")}

\* C6 witness: the search of the second sensor failed after the first sensor
\* had found scenes, and the call ended with the search error.
C6_Witness ==
    /\ Done /\ search_errors = 1 /\ sensor_i = 2
    /\ scene_list # <<>>
    /\ result = Returned(ErrSearch)

\* C7: when every sensor has been searched and no scene was found, the call
\* ends with "No scenes found."; when scenes were found and every dataset
\* group was asked for options but no request item resulted, it ends with
\* "No available downloads found."; in both cases one logout was sent and no
\* download-request or download-retrieve request, and no fetch started.
C7_ZeroScenes ==
    LoggedIn /\ sensor_i > Len(landsat_sensors) /\ scene_list = <<>>

C7_ZeroDownloads ==
    /\ LoggedIn /\ sensor_i > Len(landsat_sensors) /\ scene_list # <<>>
    /\ calls["download-options"] = Len(DatasetOrder(scene_list))
    /\ downloads = <<>>

C7_EmptyResults ==
    Done =>
        /\ C7_ZeroScenes =>
              /\ result = Returned(NoScenes)
              /\ calls["logout"] = 1
              /\ ~Sent("download-request") /\ ~Sent("download-retrieve")
              /\ tasks = <<>>
        /\ C7_ZeroDownloads =>
              /\ result = Returned(NoDownloads)
              /\ calls["logout"] = 1
              /\ ~Sent("download-request") /\ ~Sent("download-retrieve")
              /\ tasks = <<>>

\* C8: the number of fetches in flight never exceeds
\* max_concurrent_downloads (and none is in flight when that is not positive).
C8_ConcurrencyBound ==
    InFlight <= (IF args.max_concurrent_downloads > 0
                 THEN args.max_concurrent_downloads ELSE 0)

\* C8 witness: more items than the bound, the bound reached and a task
\* waiting at the gate.
C8_Witness ==
    /\ args.max_concurrent_downloads >= 1
    /\ Len(tasks) > args.max_concurrent_downloads
    /\ InFlight = args.max_concurrent_downloads
    /\ \E t \in 1..Len(tasks) : tasks[t].st = "wait"

\* C9: a failed fetch touches its own item only.  When the fan-out has been
\* joined, every task is done, each with a path, a failed fetch or a skip of
\* an item that has no URL or no filename (none was cancelled or aborted);
\* the summary counts the paths, so with exactly one failed fetch among M
\* items and the others fetched it reports M-1 files; and that summary is
\* what the caller gets.
C9_Skippable(t) ==
    \/ ~available_downloads[t].url.present
    \/ (~args.bands.none /\ available_downloads[t].fileName = ""
        /\ available_downloads[t].entityId = 0)

C9_FailureIsolation ==
    (logout_site = 320 /\ tasks # <<>>) =>
        /\ \A t \in 1..Len(tasks) :
              /\ tasks[t].st = "done"
              /\ tasks[t].res \in {"path", "failed", "skipped"}
              /\ tasks[t].res = "skipped" => C9_Skippable(t)
        /\ pending_return = Success(With("path"))
        /\ (With("failed") = 1 /\ With("skipped") = 0)
              => pending_return = Success(Len(tasks) - 1)
        /\ Done => result = pending_return

\* C9 witness: three or more items, exactly one fetch failed, and the call
\* returned the count of the others.
C9_Witness ==
    /\ Done /\ Len(tasks) >= 3
    /\ With("failed") = 1 /\ With("path") = Len(tasks) - 1
    /\ \E t \in 1..(Len(tasks) - 1) : tasks[t].res = "failed"
    /\ result = Success(Len(tasks) - 1)

\* C10: the default call (sensors L8 and L9, no band filter, archives
\* deleted) against a service whose catalog holds scenes 1 and 2, which both
\* searches list, with every option available, every requested item
\* available at once and every fetch and extraction succeeding: fulfillment
\* is requested for the 2 scenes, 2 files are reported, and extraction and
\* deletion are attempted once per scene.
C10_Scenario ==
    /\ Done /\ args.landsat_sensors.none /\ args.bands.none
    /\ args.delete_archive /\ args.max_concurrent_downloads >= 1
    /\ Len(scene_list) = 2 * 2
    /\ \A k \in 1..Len(scene_list) :
          scene_list[k].entityId = IF k % 2 = 1 THEN 1 ELSE 2
    /\ {downloads[k].entityId : k \in 1..Len(downloads)} = {1, 2}
    /\ ~Sent("download-retrieve")
    /\ Len(available_downloads) = Len(downloads)
    /\ Len(tasks) = Len(available_downloads)
    /\ \A t \in 1..Len(tasks) : tasks[t].res = "path"
    /\ removed = extracted
    /\ result.kind = "return"

C10_EndToEnd ==
    C10_Scenario =>
        /\ result = Success(2)
        /\ extracted[1] = 1 /\ extracted[2] = 1
        /\ removed[1] = 1 /\ removed[2] = 1

-----------------------------------------------------------------------------
(* Band-mode selection.                                                     *)

\* the filename ends with _<BAND>.TIF for a requested band code, the requested
\* code taken without regard to its case
C11_Matches(file_id) ==
    \E k \in 1..Len(args.bands.val) :
        \E code \in {"B2", "B3", "B4", "B5"} :
            /\ Upper(args.bands.val[k]) = code
            /\ file_id.suffix = code /\ file_id.ext = ".TIF"

\* the items one download-options step appends to downloads
C11_Added == SubSeq(downloads', Len(downloads) + 1, Len(downloads'))

C11_Requested(so) ==
    \E k \in 1..Len(C11_Added) :
        /\ C11_Added[k].entityId = so.entityId
        /\ C11_Added[k].productId = so.id

C11_Kept == {e \in SceneEntities : HasOption(dload_data', e)}

\* C11 (as stated): in band mode, a secondary entry of the option kept for a
\* scene becomes a request item if and only if its filename ends with
\* _<BAND>.TIF for a requested band code.
C11_BandSelection ==
    [][(pc = "options" /\ ~args.bands.none) =>
          \A e \in C11_Kept :
              LET secs == LastOption(dload_data', e).secondaryDownloads
              IN \A k \in 1..Len(secs) :
                    C11_Requested(secs[k]) <=> C11_Matches(secs[k].displayId)]_vars

\* C11 (amended): in band mode, a secondary entry of the option kept for a
\* scene becomes a request item if and only if the service marks it available
\* and its filename ends with _<BAND>.TIF for a requested band code; nothing
\* else is added to the request.
C11_AvailableBandSelection ==
    [][(pc = "options" /\ ~args.bands.none) =>
          /\ \A e \in C11_Kept :
                LET secs == LastOption(dload_data', e).secondaryDownloads
                IN \A k \in 1..Len(secs) :
                      C11_Requested(secs[k]) <=>
                          (secs[k].available /\ C11_Matches(secs[k].displayId))
          /\ \A i \in 1..Len(C11_Added) :
                \E e \in C11_Kept :
                    LET secs == LastOption(dload_data', e).secondaryDownloads
                    IN \E k \in 1..Len(secs) :
                          /\ C11_Added[i].productId = secs[k].id
                          /\ secs[k].available
                          /\ C11_Matches(secs[k].displayId)]_vars

\* C11 witness: with bands B2, b3, B4 requested, the B2 and B3 files of scene
\* 1 are in the request and its B5 file and its unavailable B4 file are not.
C11_Witness ==
    /\ ~args.bands.none /\ HasOption(dload_data, 1)
    /\ \E k \in 1..Len(downloads) : downloads[k].productId = Secondary(1, "B2", 2, TRUE).id
    /\ \E k \in 1..Len(downloads) : downloads[k].productId = Secondary(1, "B3", 3, TRUE).id
    /\ \A k \in 1..Len(downloads) :
          downloads[k].productId \notin {Secondary(1, "B5", 5, TRUE).id,
                                         Secondary(1, "B4", 4, FALSE).id}

-----------------------------------------------------------------------------
(* The join of the fan-out.                                                 *)

\* C12: the final logout and the summary come only after every download task
\* of the fan-out has returned: from the logout on, no task is fetching or
\* waiting at the gate, and the summary counts the paths of all of them.
C12_JoinBarrier ==
    pc \in {"logout", "done"} =>
        /\ \A t \in 1..Len(tasks) : tasks[t].st = "done"
        /\ tasks # <<>> =>
              /\ Len(tasks) = Len(available_downloads)
              /\ pending_return = Success(With("path"))

\* C12 witness: a fan-out of two or more tasks has been joined and the
\* summary returned after the logout.
C12_Witness ==
    /\ Done /\ Len(tasks) >= 2
    /\ \A t \in 1..Len(tasks) : tasks[t].st = "done"
    /\ calls["logout"] = 1 /\ result = Success(With("path"))

-----------------------------------------------------------------------------
(* The polling loop.                                                        *)

\* C13: download-retrieve is requested in the polling loop only, and the loop
\* is entered only with a non-empty pending set.  An attempt is one request;
\* before it fewer than 10 have been made.  After an attempt the loop goes on
\* exactly when the available items are still fewer than the requested ones
\* and the attempt was not the 10th, whether the request failed or not; it
\* then has slept once and counts one attempt more.  When the loop is left no
\* sleep follows the last attempt, and the run goes on to the retrieval.
C13_PollingBudget ==
    [][/\ calls'["download-retrieve"] # calls["download-retrieve"] => pc = "poll"
       /\ (pc # "poll" /\ pc' = "poll") =>
              (preparing_downloads' # <<>> /\ attempt' = 0)
       /\ pc = "poll" =>
              /\ preparing_downloads # <<>>
              /\ attempt < max_attempts
              /\ calls'["download-retrieve"] > 0
              /\ pc' \in {"poll", "retrieve"}
              /\ pc' = "poll" <=>
                    /\ Len(available_downloads') < Len(downloads)
                    /\ attempt < max_attempts - 1
              /\ pc' = "poll" => (attempt' = attempt + 1 /\ slept')
              /\ pc' = "retrieve" => ~slept']_vars

\* C13 witness: the loop was left after its 10th attempt with items still
\* missing, and no sleep followed that attempt.
C13_Witness ==
    /\ poll_exit = "exhausted" /\ Sent("download-retrieve")
    /\ preparing_downloads # <<>>
    /\ Len(available_downloads) < Len(downloads)
    /\ ~slept

\* C14: when the loop has used its 10 attempts with requested items still
\* missing, the run is not failed: no error path is taken and nothing is
\* raised, one download task is started for each item that became available
\* and for no other, and the call ends after one logout with the summary
\* that counts the files of those tasks.
C14_BestEffort ==
    poll_exit = "exhausted" =>
        /\ result.kind # "raise"
        /\ logout_site \in {0, 320}
        /\ tasks # <<>> => Len(tasks) = Len(available_downloads)
        /\ Done => /\ calls["logout"] = 1
                   /\ result = Success(With("path"))

-----------------------------------------------------------------------------
(* The request items and the retrieved files.                               *)

\* C15: in bundle mode the request holds at most one item per entityId, for
\* every sensor list, and the item of a scene carries the id of the first
\* option, in the order of the response, that is available for its entityId.
C15_OneItemPerEntity ==
    args.bands.none =>
        /\ \A i, j \in 1..Len(downloads) :
              i # j => downloads[i].entityId # downloads[j].entityId
        /\ \A i \in 1..Len(downloads) :
              HasOption(dload_data, downloads[i].entityId) =>
                  downloads[i].productId
                      = FirstOption(dload_data, downloads[i].entityId).id

C16_Name(t) ==
    new_fname(available_downloads[t], args.bands, EntityToDisplay(scene_list))

C16_Writes(t) == available_downloads[t].url.present /\ C16_Name(t).ok

\* C16: no two download tasks of a run write to the same path: the filenames
\* derived for the items handed to the retrieval are pairwise distinct.
C16_DisjointWriters ==
    \A t, u \in 1..Len(tasks) :
        (t # u /\ C16_Writes(t) /\ C16_Writes(u)) => C16_Name(t) # C16_Name(u)

\* C17: a login response without data is a login failure: a call that got
\* past login holds the token the service gave, never an absent one.
C17_NoDataIsFailure == LoggedIn => apiKey = "token"

\* C18: when the polling loop is left by its break, every requested item is
\* in the available list, and no download item is in that list twice.
C18_EarlyStopSound ==
    poll_exit = "break" =>
        /\ \A k \in 1..Len(downloads) :
              \E i \in 1..Len(available_downloads) :
                  available_downloads[i].url = Url(k)
        /\ \A i, j \in 1..Len(available_downloads) :
              i # j => available_downloads[i] # available_downloads[j]

\* C19: the ring sent with a scene-search has 5 vertices: the corners
\* (min_lon,min_lat), (max_lon,min_lat), (max_lon,max_lat), (min_lon,max_lat)
\* of the bounding box and the first corner again.
C19_SearchPolygon ==
    Sent("scene-search") =>
        LET b == args.bounding_box
            ring == search_polygon(b[1].val, b[2].val, b[3].val, b[4].val)
        IN /\ Len(ring) = 5
           /\ ring[1] = <<b[1].val, b[2].val>>
           /\ ring[2] = <<b[3].val, b[2].val>>
           /\ ring[3] = <<b[3].val, b[4].val>>
           /\ ring[4] = <<b[1].val, b[4].val>>
           /\ ring[5] = ring[1]

\* C20: for every max_concurrent_downloads the entry point accepts, once the
\* retrieval is reached every download task passes the gate and ends, and
\* the call ends after its logout with the summary.
C20_RetrievalTerminates ==
    (pc = "retrieve") ~>
        /\ Done /\ calls["logout"] = 1 /\ result.kind = "return"
        /\ \A t \in 1..Len(tasks) : tasks[t].st = "done"

====
